---- MODULE Spec2Model ----
(***************************************************************************)
(* Local Keyword Volume Checker (src/app.py): the location cache policy    *)
(* (file cache + one-hour in-memory memoization), the location fetcher and *)
(* the "Get Search Volumes" / "Refresh Location Database" handlers.        *)
(*                                                                         *)
(* Time is in whole seconds.  A Python dict is a TLA+ record whose DOMAIN  *)
(* is the set of keys present; a Python list is a sequence; a string that  *)
(* the code scans character by character is a sequence of one-character   *)
(* strings.                                                                *)
(***************************************************************************)
EXTENDS Integers, Sequences, FiniteSets, TLC

VARIABLES
    cacheFile,  \* content of locations_cache.json: absent, valid or partial
    mtime,      \* os.path.getmtime(CACHE_FILE)
    now,        \* time.time()
    memo,       \* st.cache_data store of load_all_locations, by argument
    pc,         \* position of the session: idle, or the handler to run next
    action,     \* the user-triggered action in progress (or last finished)
    netCalls,   \* outbound provider requests made by that action so far
    last,       \* record of the most recent call of load_all_locations
    vol,        \* what the last "Get Search Volumes" handler did
    ticks       \* number of clock advances so far

vars == <<cacheFile, mtime, now, memo, pc, action, netCalls, last, vol, ticks>>

(***************************************************************************)
(* Program constants                                                       *)
(***************************************************************************)
CACHE_DAYS == 30
SECONDS_PER_DAY == 24 * 3600
MEMO_TTL == 3600
HTTP_OK == 200
TASK_OK == 20000

\* The freshness window of the file cache, in seconds.
Window == CACHE_DAYS * SECONDS_PER_DAY

(***************************************************************************)
(* Bounds of the model                                                     *)
(***************************************************************************)
MaxTicks == 2       \* clock advances in one behaviour
MaxLen == 4         \* characters in the keywords text area
MaxVolTasks == 2    \* tasks in a keyword-volume response
MaxItems == 1       \* result entries per keyword-volume task

(***************************************************************************)
(* Generic helpers                                                         *)
(***************************************************************************)
SeqsUpTo(S, n) == UNION {[1..k -> S] : k \in 0..n}

\* dict.get(key, default)
Get(d, key, default) == IF key \in DOMAIN d THEN d[key] ELSE default

\* "no value" markers of the right type (Python None)
NoDate == -1
NoCode == -1

(***************************************************************************)
(* Provider: location-listing responses                                    *)
(***************************************************************************)
NoTasksBody == [status_message |-> "Ok."]

\* raises: requests.get or .json() raised; otherwise status_code and body.
LocRaises == [raises |-> TRUE, status_code |-> 0, body |-> NoTasksBody]
LocHttpError == [raises |-> FALSE, status_code |-> 500, body |-> NoTasksBody]
LocOk(body) == [raises |-> FALSE, status_code |-> HTTP_OK, body |-> body]

Austin == [location_name |-> "Austin", location_code |-> 1]
Boston == [location_name |-> "Boston", location_code |-> 2]

\* The responses the provider may give: a transport error, a non-200
\* answer, an answer without entries, two well-formed answers and one with
\* an entry that lacks location_name.
LocResponses ==
    { LocRaises,
      LocHttpError,
      LocOk([tasks |-> <<>>]),
      LocOk([tasks |-> << [result |-> <<Austin>>] >>]),
      LocOk([tasks |-> << [result |-> <<Boston>>], [result |-> <<Austin>>] >>]),
      LocOk([tasks |-> << [result |-> <<Austin>>], [result |-> <<[location_code |-> 3]>>] >>]) }

(***************************************************************************)
(* fetch_locations_from_api                                                *)
(***************************************************************************)
RECURSIVE FlattenResults(_)
FlattenResults(tasks) ==
    IF tasks = <<>> THEN <<>>
    ELSE Get(Head(tasks), "result", <<>>) \o FlattenResults(Tail(tasks))

LocationRecord(result) ==
    [ name |-> result.location_name,
      code |-> result.location_code,
      display |-> result.location_name \o " (code "
                    \o ToString(result.location_code) \o ")" ]

\* result["location_name"] / result["location_code"] raise KeyError on an
\* entry without the key; the enclosing try/except turns that into [].
fetch_locations_from_api(loc_resp) ==
    IF loc_resp.raises THEN <<>>
    ELSE IF loc_resp.status_code = HTTP_OK
    THEN LET entries == FlattenResults(Get(loc_resp.body, "tasks", <<>>))
         IN  IF \E i \in 1..Len(entries) :
                    ~ ({"location_name", "location_code"} \subseteq DOMAIN entries[i])
             THEN <<>>
             ELSE [i \in 1..Len(entries) |-> LocationRecord(entries[i])]
    ELSE <<>>

(***************************************************************************)
(* The cache file                                                          *)
(***************************************************************************)
NoFile == [state |-> "absent", locations |-> <<>>, cached_date |-> NoDate]
PartialFile == [state |-> "partial", locations |-> <<>>, cached_date |-> NoDate]
ValidFile(locations, t) ==
    [state |-> "valid", locations |-> locations, cached_date |-> t]

FileExists(f) == f.state # "absent"

is_cache_fresh_inclusive(f, m, t) ==
    FileExists(f) /\ (t - m) <= CACHE_DAYS * SECONDS_PER_DAY

\* cache_age / (24 * 3600) < CACHE_DAYS, a real division: the same as
\* cache_age < CACHE_DAYS * (24 * 3600).
is_cache_fresh(f, m, t) ==
    FileExists(f) /\ (t - m) < CACHE_DAYS * SECONDS_PER_DAY

\* json.load raises on an absent or partially written file: ([], None).
load_locations_from_cache(f) ==
    IF f.state = "valid"
    THEN [locations |-> f.locations, cached_date |-> f.cached_date]
    ELSE [locations |-> <<>>, cached_date |-> NoDate]

\* How a write can end: it succeeds; open() raises (file untouched); or
\* open(CACHE_FILE, 'w') has truncated the file and json.dump / the flush
\* on close raises, leaving an incomplete document.
WriteOutcomes == {"ok", "open_fails", "dump_fails"}

save_locations_to_cache_dropping(locations, f, m, t, wr) ==
    [ok |-> TRUE, file |-> f, mtime |-> m]

save_locations_to_cache(locations, f, m, t, wr) ==
    CASE wr = "ok" ->
            [ok |-> TRUE, file |-> ValidFile(locations, t), mtime |-> t]
      [] wr = "open_fails" ->
            [ok |-> FALSE, file |-> f, mtime |-> m]
      [] OTHER ->
            [ok |-> FALSE, file |-> PartialFile, mtime |-> t]

(***************************************************************************)
(* load_all_locations (the function body, without the memoization)         *)
(***************************************************************************)
Status(kind, info) == [kind |-> kind, info |-> info]

\* What one run of the body returns and does: the returned pair, the cache
\* file and its modification time afterwards, and the requests it made.
Outcome(locations, status, f, m, requests) ==
    [ locations |-> locations, status |-> status, file |-> f, mtime |-> m,
      requests |-> requests ]

\* lines 106-108
ServeFromCache(f, m) ==
    LET cached == load_locations_from_cache(f)
    IN  Outcome(cached.locations, Status("Using cached data", cached.cached_date),
                f, m, 0)

\* lines 113-118
OnFetchSuccess(locations, f, m, t, wr, requests) ==
    LET sv == save_locations_to_cache(locations, f, m, t, wr)
    IN  IF sv.ok
        THEN Outcome(locations, Status("Fresh data fetched and cached", Len(locations)),
                     sv.file, sv.mtime, requests)
        ELSE Outcome(locations, Status("Fresh data fetched - cache save failed", Len(locations)),
                     sv.file, sv.mtime, requests)

OnFetchFailure_clearing(f, m, t, requests) ==
    Outcome(<<>>, Status("Failed to load locations", NoDate), NoFile, m, requests)

\* lines 119-126
OnFetchFailure(f, m, t, requests) ==
    LET cached == load_locations_from_cache(f)
    IN  IF FileExists(f) /\ cached.locations # <<>>
        THEN Outcome(cached.locations,
                     Status("API failed - using stale cache", cached.cached_date),
                     f, m, requests)
        ELSE Outcome(<<>>, Status("Failed to load locations", NoDate), f, m, requests)

AfterFetch(locations, f, m, t, wr, requests) ==
    IF locations # <<>>
    THEN OnFetchSuccess(locations, f, m, t, wr, requests)
    ELSE OnFetchFailure(f, m, t, requests)

UseCache_ignoring_force(force_refresh, f, m, t) ==
    is_cache_fresh(f, m, t) /\ load_locations_from_cache(f).locations # <<>>

\* lines 105-107: both conditions under which the body returns at line 108
UseCache(force_refresh, f, m, t) ==
    /\ ~force_refresh
    /\ is_cache_fresh(f, m, t)
    /\ load_locations_from_cache(f).locations # <<>>

load_all_locations_retrying(force_refresh, f, m, t, loc_resp, wr) ==
    IF UseCache(force_refresh, f, m, t)
    THEN ServeFromCache(f, m)
    ELSE LET first == fetch_locations_from_api(loc_resp)
         IN  AfterFetch(first, f, m, t, wr, IF first = <<>> THEN 2 ELSE 1)

load_all_locations(force_refresh, f, m, t, loc_resp, wr) ==
    IF UseCache(force_refresh, f, m, t)
    THEN ServeFromCache(f, m)
    ELSE AfterFetch(fetch_locations_from_api(loc_resp), f, m, t, wr, 1)

(***************************************************************************)
(* @st.cache_data(ttl=3600): the memoization around load_all_locations     *)
(***************************************************************************)
NoMemoEntry ==
    [present |-> FALSE, locations |-> <<>>, status |-> Status("", NoDate), stored |-> 0]

EmptyMemo == [k \in BOOLEAN |-> NoMemoEntry]

MemoValid(e, t) == e.present /\ t - e.stored < MEMO_TTL

\* A call of the decorated function: an unexpired entry for the argument is
\* returned without running the body; otherwise the body runs and its
\* result is stored.
st_cache_data(force_refresh, f, m, t, mem, loc_resp, wr) ==
    IF MemoValid(mem[force_refresh], t)
    THEN [ out |-> Outcome(mem[force_refresh].locations, mem[force_refresh].status, f, m, 0),
           memo |-> mem, hit |-> TRUE ]
    ELSE LET out == load_all_locations(force_refresh, f, m, t, loc_resp, wr)
         IN  [ out |-> out,
               memo |-> [mem EXCEPT ![force_refresh] =
                            [ present |-> TRUE, locations |-> out.locations,
                              status |-> out.status, stored |-> t ]],
               hit |-> FALSE ]

NoCall ==
    [ called |-> FALSE, force_refresh |-> FALSE, memoHit |-> FALSE, requests |-> 0,
      loc_resp |-> LocRaises, fileBefore |-> NoFile, mtimeBefore |-> 0,
      at |-> 0, locations |-> <<>>, status |-> Status("", NoDate) ]

\* The provider answers only when asked, and the write ends one way or
\* another only when it is attempted.
Answers(force_refresh, mem) ==
    IF MemoValid(mem[force_refresh], now) \/ UseCache(force_refresh, cacheFile, mtime, now)
    THEN {LocRaises}
    ELSE LocResponses

WriteEnds(force_refresh, mem, loc_resp) ==
    IF loc_resp \in Answers(force_refresh, mem) /\ Cardinality(Answers(force_refresh, mem)) > 1
         /\ fetch_locations_from_api(loc_resp) # <<>>
    THEN WriteOutcomes
    ELSE {"ok"}

\* One call of load_all_locations(force_refresh) by the script, with the
\* memo store `mem` as it is at the call and `calls0` requests made before.
CallLoadAllLocations(force_refresh, mem, calls0) ==
    \E loc_resp \in Answers(force_refresh, mem) :
    \E wr \in WriteEnds(force_refresh, mem, loc_resp) :
    LET c == st_cache_data(force_refresh, cacheFile, mtime, now, mem, loc_resp, wr)
    IN  /\ cacheFile' = c.out.file
        /\ mtime' = c.out.mtime
        /\ memo' = c.memo
        /\ netCalls' = calls0 + c.out.requests
        /\ last' = [ called |-> TRUE, force_refresh |-> force_refresh,
                     memoHit |-> c.hit, requests |-> c.out.requests,
                     loc_resp |-> IF c.out.requests > 0 THEN loc_resp ELSE LocRaises,
                     fileBefore |-> cacheFile, mtimeBefore |-> mtime, at |-> now,
                     locations |-> c.out.locations, status |-> c.out.status ]

(***************************************************************************)
(* Keywords text area: str.strip, str.split("\n"), the list comprehension  *)
(***************************************************************************)
Whitespace == {" ", "\t", "\n", "\r"}
Chars == {"a", "b", " ", "\t", "\n"}

RECURSIVE lstrip(_)
lstrip(s) ==
    IF s # <<>> /\ Head(s) \in Whitespace THEN lstrip(Tail(s)) ELSE s

RECURSIVE rstrip(_)
rstrip(s) ==
    IF s # <<>> /\ s[Len(s)] \in Whitespace
    THEN rstrip(SubSeq(s, 1, Len(s) - 1))
    ELSE s

strip_left_only(s) == lstrip(s)

\* str.strip()
strip(s) == rstrip(lstrip(s))

\* str.split("\n"): cur is the piece being collected
RECURSIVE SplitFrom(_, _)
SplitFrom(s, cur) ==
    IF s = <<>> THEN <<cur>>
    ELSE IF Head(s) = "\n"
         THEN <<cur>> \o SplitFrom(Tail(s), <<>>)
         ELSE SplitFrom(Tail(s), Append(cur, Head(s)))

split(s) == SplitFrom(s, <<>>)

\* [k.strip() for k in keywords_input.split("\n") if k.strip()]
RECURSIVE StripNonBlank(_)
StripNonBlank(lines) ==
    IF lines = <<>> THEN <<>>
    ELSE LET k == strip(Head(lines))
         IN  (IF k # <<>> THEN <<k>> ELSE <<>>) \o StripNonBlank(Tail(lines))

Keywords(keywords_input) == StripNonBlank(split(keywords_input))

(***************************************************************************)
(* Provider: keyword-volume responses                                      *)
(***************************************************************************)
RunningShoes ==
    [keyword |-> "running shoes", search_volume |-> 1000, competition |-> "HIGH", cpc |-> 125]
TrailShoes == [keyword |-> "trail shoes", search_volume |-> 0]

VolItems == {RunningShoes, TrailShoes}

\* A task always has an id; status_code, status_message and result may be
\* missing.
VolTasks ==
    { [id |-> "task"] @@ c @@ msg @@ r :
        c \in { <<>>, [status_code |-> TASK_OK], [status_code |-> 40000] },
        msg \in { <<>>, [status_message |-> "Invalid Field"] },
        r \in { <<>> } \cup { [result |-> items] : items \in SeqsUpTo(VolItems, MaxItems) } }

VolRaises == [raises |-> TRUE, status_code |-> 0, body |-> NoTasksBody]
VolHttpError == [raises |-> FALSE, status_code |-> 401, body |-> NoTasksBody]
VolOk(body) == [raises |-> FALSE, status_code |-> HTTP_OK, body |-> body]

AllVolResponses ==
    { VolRaises, VolHttpError, VolOk(NoTasksBody) }
      \cup { VolOk([tasks |-> ts]) : ts \in SeqsUpTo(VolTasks, MaxVolTasks) }

\* The responses and texts the session model draws from.
SomeVolResponses ==
    { VolRaises, VolHttpError,
      VolOk([tasks |-> << [id |-> "task", status_code |-> TASK_OK,
                           result |-> <<RunningShoes, TrailShoes>>] >>]),
      VolOk([tasks |-> << [id |-> "task", status_code |-> 40000,
                           status_message |-> "Invalid Field"] >>]) }

SomeTexts == { <<" ", "\n">>, <<"a", "\n", " ", "\n", "b", " ">> }

AllTexts == SeqsUpTo(Chars, MaxLen)

(***************************************************************************)
(* The "Get Search Volumes" handler                                        *)
(***************************************************************************)
TwoDigits(n) == IF n < 10 THEN "0" \o ToString(n) ELSE ToString(n)

\* f"${cpc_value:.2f}" if cpc_value else "N/A"; cpc is held in cents
cpc_formatted(cpc_value) ==
    IF cpc_value # 0
    THEN "$" \o ToString(cpc_value \div 100) \o "." \o TwoDigits(cpc_value % 100)
    ELSE "N/A"

\* lines 253-262
VolumeRecord(item, selected_location_name) ==
    [ Keyword |-> Get(item, "keyword", "N/A"),
      SearchVolume |-> Get(item, "search_volume", 0),
      Competition |-> Get(item, "competition", "N/A"),
      CPC |-> cpc_formatted(Get(item, "cpc", 0)),
      Location |-> selected_location_name ]

\* line 264
TaskWarning(task) ==
    [ status_code |-> Get(task, "status_code", NoCode),
      status_message |-> Get(task, "status_message", "Unknown error") ]

IsSuccess_any_code(task) == "status_code" \in DOMAIN task

\* line 245
IsSuccess(task) == Get(task, "status_code", NoCode) = TASK_OK

\* lines 241-264: the loop over vol_data["tasks"]
RECURSIVE ParseTasks(_, _)
ParseTasks(tasks, selected_location_name) ==
    IF tasks = <<>> THEN [results |-> <<>>, warnings |-> <<>>]
    ELSE LET task == Head(tasks)
             rest == ParseTasks(Tail(tasks), selected_location_name)
             result_items == Get(task, "result", <<>>)
         IN  IF IsSuccess(task)
             THEN [ results |->
                        [i \in 1..Len(result_items) |->
                            VolumeRecord(result_items[i], selected_location_name)]
                          \o rest.results,
                    warnings |-> rest.warnings ]
             ELSE [ results |-> rest.results,
                    warnings |-> <<TaskWarning(task)>> \o rest.warnings ]

NoLocation == [name |-> "", code |-> NoCode, display |-> ""]

VolRecord(outcome, requests, keywords, location, results, warnings, keywords_input, vol_resp) ==
    [ outcome |-> outcome, requests |-> requests, keywords |-> keywords,
      language_code |-> "en", location |-> location,
      results |-> results, warnings |-> warnings,
      keywords_input |-> keywords_input, vol_resp |-> vol_resp ]

NoVol == VolRecord("none", 0, <<>>, NoLocation, <<>>, <<>>, <<>>, VolRaises)

\* lines 200-274.  selected_location is NoLocation when the select box is
\* on its empty option.  Nothing of the provider's answer is recorded when
\* no request is made.
VolumesHandler(keywords_input, selected_location, vol_resp) ==
    IF strip(keywords_input) = <<>>
    THEN VolRecord("no keywords", 0, <<>>, NoLocation, <<>>, <<>>, keywords_input, VolRaises)
    ELSE IF selected_location.code = NoCode \/ selected_location.code = 0
    THEN VolRecord("no location", 0, <<>>, NoLocation, <<>>, <<>>, keywords_input, VolRaises)
    ELSE LET keywords == Keywords(keywords_input)
             sent(outcome, results, warnings) ==
                 VolRecord(outcome, 1, keywords, selected_location, results, warnings,
                           keywords_input, vol_resp)
         IN  IF vol_resp.raises THEN sent("exception", <<>>, <<>>)
             ELSE IF vol_resp.status_code # HTTP_OK THEN sent("Volume API Error", <<>>, <<>>)
             ELSE LET parsed == IF "tasks" \in DOMAIN vol_resp.body
                                THEN ParseTasks(vol_resp.body.tasks, selected_location.name)
                                ELSE [results |-> <<>>, warnings |-> <<>>]
                  IN  IF parsed.results # <<>>
                      THEN sent("results", parsed.results, parsed.warnings)
                      ELSE sent("No results returned", parsed.results, parsed.warnings)

(***************************************************************************)
(* The session: script runs and handlers                                   *)
(***************************************************************************)
Range(seq) == {seq[i] : i \in 1..Len(seq)}

Init ==
    /\ cacheFile = NoFile
    /\ mtime = 0
    /\ now = 0
    /\ memo = EmptyMemo
    /\ pc = "idle"
    /\ action = "none"
    /\ netCalls = 0
    /\ last = NoCall
    /\ vol = NoVol
    /\ ticks = 0

\* The buttons are on the page when the previous run got past line 143.
Rendered == last.called /\ last.locations # <<>>

\* lines 128-143, the start of every script run: load_all_locations(), then
\* st.stop() when it returned no locations; else the run goes on to `next`.
RunTop(name, next) ==
    /\ pc = "idle"
    /\ CallLoadAllLocations(FALSE, memo, 0)
    /\ action' = name
    /\ pc' = IF last'.locations = <<>> THEN "idle" ELSE next
    /\ vol' = NoVol
    /\ UNCHANGED <<now, ticks>>

\* Opening the page, or a rerun caused by editing an input widget.
LoadLocations == RunTop("load locations", "idle")

\* Pressing a button reruns the script from the top with the button set.
PressGetSearchVolumes == Rendered /\ RunTop("get volumes", "volumes")

PressRefresh == Rendered /\ RunTop("refresh locations", "refresh")

\* lines 200-274, with the widget values and the provider's answer drawn
\* from the given sets.
GetSearchVolumes(texts, responses) ==
    /\ pc = "volumes"
    /\ \E keywords_input \in texts,
          selected_location \in {NoLocation} \cup Range(last.locations),
          vol_resp \in responses :
          /\ vol' = VolumesHandler(keywords_input, selected_location, vol_resp)
          /\ netCalls' = netCalls + vol'.requests
    /\ pc' = "idle"
    /\ UNCHANGED <<cacheFile, mtime, now, memo, action, last, ticks>>

GetSearchVolumesRun == GetSearchVolumes(SomeTexts, SomeVolResponses)

\* lines 280-285: st.cache_data.clear(), load_all_locations(force_refresh=True),
\* st.rerun()
RefreshLocationDatabase ==
    /\ pc = "refresh"
    /\ CallLoadAllLocations(TRUE, EmptyMemo, netCalls)
    /\ pc' = "rerun"
    /\ UNCHANGED <<now, action, vol, ticks>>

\* The run started by st.rerun(): no button is set.
Rerun ==
    /\ pc = "rerun"
    /\ CallLoadAllLocations(FALSE, memo, netCalls)
    /\ pc' = "idle"
    /\ UNCHANGED <<now, action, vol, ticks>>

\* Time passes between user actions.
Jumps == {1, Window - 1}

Tick ==
    /\ pc = "idle"
    /\ ticks < MaxTicks
    /\ \E d \in Jumps : now' = now + d
    /\ ticks' = ticks + 1
    /\ UNCHANGED <<cacheFile, mtime, memo, pc, action, netCalls, last, vol>>

Next ==
    \/ LoadLocations
    \/ PressGetSearchVolumes
    \/ PressRefresh
    \/ GetSearchVolumesRun
    \/ RefreshLocationDatabase
    \/ Rerun
    \/ Tick

Spec == Init /\ [][Next]_vars

(***************************************************************************)
(* The volumes handler on all keyword texts and all provider answers,      *)
(* started where the session is after the page was opened with a           *)
(* successful fetch and "Get Search Volumes" was pressed right away.       *)
(***************************************************************************)
LoadedLocations ==
    << LocationRecord(Boston), LocationRecord(Austin) >>

LoadedStatus == Status("Fresh data fetched and cached", 2)

VolumesReady ==
    /\ cacheFile = ValidFile(LoadedLocations, 0)
    /\ mtime = 0
    /\ now = 0
    /\ memo = [EmptyMemo EXCEPT ![FALSE] =
                  [ present |-> TRUE, locations |-> LoadedLocations,
                    status |-> LoadedStatus, stored |-> 0 ]]
    /\ pc = "volumes"
    /\ action = "get volumes"
    /\ netCalls = 0
    /\ last = [ NoCall EXCEPT !.called = TRUE, !.memoHit = TRUE,
                              !.fileBefore = ValidFile(LoadedLocations, 0),
                              !.locations = LoadedLocations,
                              !.status = LoadedStatus ]
    /\ vol = NoVol
    /\ ticks = 0

GetSearchVolumesAllTexts == GetSearchVolumes(AllTexts, SomeVolResponses)

GetSearchVolumesAllResponses == GetSearchVolumes(SomeTexts, AllVolResponses)

NextVolumes ==
    \/ GetSearchVolumesAllTexts
    \/ GetSearchVolumesAllResponses

SpecVolumes == VolumesReady /\ [][NextVolumes]_vars

(***************************************************************************)
(* Vocabulary of the properties, read off the record of the last call      *)
(***************************************************************************)
\* The body of load_all_locations ran (the call was not answered from the
\* in-memory memoization).
BodyRan == last.called /\ ~last.memoHit

\* The call asked the provider's location-listing endpoint.
FetchAttempted == last.requests >= 1

\* Transport error, non-200 answer, or an answer that yields no locations.
FetchFailed ==
    \/ last.loc_resp.raises
    \/ last.loc_resp.status_code # 200
    \/ fetch_locations_from_api(last.loc_resp) = <<>>

AgeBefore == last.at - last.mtimeBefore

ThirtyDays == 30 * 24 * 60 * 60

\* The cache file existed and was younger than the window when the call began.
FreshBefore == last.fileBefore.state # "absent" /\ AgeBefore < ThirtyDays

ReadableBefore ==
    last.fileBefore.state = "valid" /\ last.fileBefore.locations # <<>>

(***************************************************************************)
(* C1: load_all_locations returns an empty list only when no cache exists  *)
(* and the live fetch fails; with any existing cache a failing fetch       *)
(* (forced or not) returns the cache.  Violated: a cache file left         *)
(* incomplete by a failed write (see C4) exists but cannot be read.        *)
(***************************************************************************)
C1_EmptyOnlyWithoutCache ==
    (BodyRan /\ last.locations = <<>>)
        => (last.fileBefore.state = "absent" /\ FetchAttempted /\ FetchFailed)

(***************************************************************************)
(* C2, as claimed: a call with force_refresh=false and a fresh cache       *)
(* returns the cached list with the served-from-cache status and asks the  *)
(* provider nothing; every other call attempts a live fetch.               *)
(***************************************************************************)
C2_FreshCacheElseFetch ==
    last.called =>
        IF ~last.force_refresh /\ FreshBefore
        THEN /\ last.status.kind = "Using cached data"
             /\ last.locations = last.fileBefore.locations
             /\ last.requests = 0
        ELSE FetchAttempted

(***************************************************************************)
(* C2, amended: a call answered from the one-hour memoization returns the  *)
(* stored pair and asks the provider nothing; when the body runs with      *)
(* force_refresh=false and a fresh cache that reads back a non-empty list, *)
(* it returns that list with the served-from-cache status and asks the     *)
(* provider nothing; every other run of the body makes exactly one fetch.  *)
(***************************************************************************)
C2_FreshCacheElseFetch_Amended ==
    last.called =>
        /\ last.memoHit =>
              /\ last.requests = 0
              /\ cacheFile = last.fileBefore
              /\ memo[last.force_refresh].present
              /\ last.locations = memo[last.force_refresh].locations
              /\ last.status = memo[last.force_refresh].status
        /\ (BodyRan /\ ~last.force_refresh /\ FreshBefore /\ ReadableBefore) =>
              /\ last.status = Status("Using cached data", last.fileBefore.cached_date)
              /\ last.locations = last.fileBefore.locations
              /\ last.requests = 0
              /\ cacheFile = last.fileBefore
        /\ (BodyRan /\ ~(~last.force_refresh /\ FreshBefore /\ ReadableBefore)) =>
              last.requests = 1

\* The body served a cache one second short of the window without a fetch.
C2_Witness ==
    /\ BodyRan /\ ~last.force_refresh
    /\ ReadableBefore
    /\ AgeBefore = ThirtyDays - 1
    /\ last.status.kind = "Using cached data"
    /\ last.requests = 0

(***************************************************************************)
(* C3, as claimed: after every call whose live fetch succeeded, the cache  *)
(* store holds exactly the list that was returned.                         *)
(***************************************************************************)
C3_FetchedIsPersisted ==
    (BodyRan /\ FetchAttempted /\ ~FetchFailed)
        => (cacheFile.state = "valid" /\ cacheFile.locations = last.locations)

(***************************************************************************)
(* C3, amended: every call whose live fetch succeeded returns the fetched  *)
(* list; when the save succeeded (status "Fresh data fetched and cached")  *)
(* the cache store holds exactly that list, stamped and modified at the    *)
(* time of the call; otherwise the status is "cache save failed" and the   *)
(* store holds what it held before or an incomplete file.                  *)
(***************************************************************************)
C3_FetchedIsPersisted_Amended ==
    (BodyRan /\ FetchAttempted /\ ~FetchFailed) =>
        /\ last.locations = fetch_locations_from_api(last.loc_resp)
        /\ last.status.info = Len(last.locations)
        /\ \/ /\ last.status.kind = "Fresh data fetched and cached"
              /\ cacheFile = ValidFile(last.locations, last.at)
              /\ mtime = last.at
           \/ /\ last.status.kind = "Fresh data fetched - cache save failed"
              /\ \/ cacheFile = last.fileBefore /\ mtime = last.mtimeBefore
                 \/ cacheFile = PartialFile /\ mtime = last.at

\* A successful fetch replaced an older cache holding a different list.
C3_Witness ==
    /\ BodyRan /\ FetchAttempted /\ ~FetchFailed
    /\ last.status.kind = "Fresh data fetched and cached"
    /\ last.fileBefore.state = "valid"
    /\ last.fileBefore.locations # last.locations
    /\ last.mtimeBefore < last.at
    /\ cacheFile.locations = last.locations

(***************************************************************************)
(* C4: the cache is replaced all-or-nothing: after any call the store      *)
(* holds the complete previous (locations, timestamp) pair or the complete *)
(* pair of one successful fetch, never a partial or emptied file.          *)
(* Violated: open(CACHE_FILE, 'w') truncates the file in place before      *)
(* json.dump writes it.                                                    *)
(***************************************************************************)
C4_AllOrNothing ==
    last.called =>
        \/ cacheFile = last.fileBefore /\ mtime = last.mtimeBefore
        \/ /\ FetchAttempted /\ ~FetchFailed
           /\ cacheFile = ValidFile(fetch_locations_from_api(last.loc_resp), last.at)

(***************************************************************************)
(* C5, as claimed: a user-triggered action makes at most one outbound      *)
(* request to the provider, the rerun it triggers included.                *)
(***************************************************************************)
C5_OneRequestPerAction == netCalls <= 1

(***************************************************************************)
(* C5, amended: every call of load_all_locations and every run of the      *)
(* volumes handler makes at most one request; an action makes at most one  *)
(* request when it only loads the page, at most two for "Get Search        *)
(* Volumes" (the location fetch of the rerun, then the volume request) and *)
(* at most three for "Refresh Location Database" (the location fetch of    *)
(* the rerun, the forced fetch, and the fetch of the run st.rerun starts). *)
(***************************************************************************)
C5_RequestsPerAction_Amended ==
    /\ last.requests <= 1
    /\ vol.requests <= 1
    /\ action = "none" => netCalls = 0
    /\ action = "load locations" => netCalls = last.requests
    /\ action = "get volumes" => netCalls = last.requests + vol.requests
    /\ action = "refresh locations" => netCalls <= 3
    /\ (action = "refresh locations" /\ pc = "refresh") => netCalls = last.requests

\* A refresh whose three calls of load_all_locations each asked the provider.
C5_Witness ==
    /\ action = "refresh locations"
    /\ pc = "idle"
    /\ netCalls = 3

\* An entry with both required fields.
WellFormed(entry) == {"location_name", "location_code"} \subseteq DOMAIN entry

(***************************************************************************)
(* C8: a successful location-listing response with an entry that lacks     *)
(* location_name or location_code yields all the well-formed entries, in   *)
(* response order.  Violated: the KeyError of the malformed entry is       *)
(* caught by the fetcher's outer except, which returns [].                 *)
(***************************************************************************)
C8_MalformedEntrySkipped ==
    (BodyRan /\ FetchAttempted /\ ~last.loc_resp.raises /\ last.loc_resp.status_code = 200
        /\ "tasks" \in DOMAIN last.loc_resp.body)
    => LET kept == SelectSeq(FlattenResults(last.loc_resp.body.tasks), WellFormed)
       IN  /\ Len(fetch_locations_from_api(last.loc_resp)) = Len(kept)
           /\ \A i \in 1..Len(kept) :
                 /\ fetch_locations_from_api(last.loc_resp)[i].name = kept[i].location_name
                 /\ fetch_locations_from_api(last.loc_resp)[i].code = kept[i].location_code

(***************************************************************************)
(* C9: an existing cache is classified fresh exactly when its age is       *)
(* below 30 days; at exactly 30 days it is stale; an absent cache is never *)
(* fresh.  Read both off is_cache_fresh in the current state and off what  *)
(* a non-forced run of the body did with a readable cache.                 *)
(***************************************************************************)
C9_FreshExactlyBelowWindow ==
    /\ is_cache_fresh(cacheFile, mtime, now)
          <=> (cacheFile.state # "absent" /\ now - mtime < ThirtyDays)
    /\ (cacheFile.state # "absent" /\ now - mtime = ThirtyDays)
          => ~is_cache_fresh(cacheFile, mtime, now)
    /\ cacheFile.state = "absent" => ~is_cache_fresh(cacheFile, mtime, now)
    /\ (BodyRan /\ ~last.force_refresh /\ ReadableBefore) =>
          (last.status.kind = "Using cached data" <=> AgeBefore < ThirtyDays)

\* A readable cache aged exactly 30 days was treated as stale: the body
\* asked the provider.
C9_Witness ==
    /\ BodyRan /\ ~last.force_refresh /\ ReadableBefore
    /\ AgeBefore = ThirtyDays
    /\ FetchAttempted
    /\ ~is_cache_fresh(last.fileBefore, last.mtimeBefore, last.at)

(***************************************************************************)
(* C10: a call whose live fetch fails leaves the cache store unchanged     *)
(* (locations, cached_date, modification time), and when it falls back to  *)
(* the cache the list it returns is the stored list.                       *)
(***************************************************************************)
C10_FailedFetchKeepsCache ==
    (BodyRan /\ FetchAttempted /\ FetchFailed) =>
        /\ cacheFile = last.fileBefore
        /\ mtime = last.mtimeBefore
        /\ last.status.kind \in {"API failed - using stale cache", "Failed to load locations"}
        /\ last.status.kind = "API failed - using stale cache" =>
              /\ cacheFile.state = "valid"
              /\ last.locations = cacheFile.locations
              /\ last.locations # <<>>
              /\ last.status.info = cacheFile.cached_date
        /\ last.status.kind = "Failed to load locations" => last.locations = <<>>

\* A failed fetch fell back to a cache older than the window.
C10_Witness ==
    /\ BodyRan /\ FetchAttempted /\ FetchFailed
    /\ last.status.kind = "API failed - using stale cache"
    /\ AgeBefore >= ThirtyDays
    /\ last.locations = cacheFile.locations
    /\ cacheFile.locations # <<>>

(***************************************************************************)
(* Vocabulary of the volume properties, read off the handler's record      *)
(***************************************************************************)
\* The handler sent the volume request.
Sent == vol.requests = 1

\* The provider answered 200 with a JSON body.
Answered == Sent /\ ~vol.vol_resp.raises /\ vol.vol_resp.status_code = 200

RespTasks ==
    IF "tasks" \in DOMAIN vol.vol_resp.body THEN vol.vol_resp.body.tasks ELSE <<>>

Succeeded(i) ==
    "status_code" \in DOMAIN RespTasks[i] /\ RespTasks[i].status_code = 20000

EntriesOf(i) ==
    IF "result" \in DOMAIN RespTasks[i] THEN RespTasks[i].result ELSE <<>>

\* Number of result entries of the successful tasks among the first i.
RECURSIVE EntriesUpTo(_)
EntriesUpTo(i) ==
    IF i = 0 THEN 0
    ELSE EntriesUpTo(i - 1) + (IF Succeeded(i) THEN Len(EntriesOf(i)) ELSE 0)

\* Number of tasks without the success code among the first i.
FailedUpTo(i) == Cardinality({j \in 1..i : ~Succeeded(j)})

(***************************************************************************)
(* C6: the output records are exactly the result entries of the tasks      *)
(* whose status_code is 20000, in task order then entry order; every other *)
(* task yields exactly one warning with its status code and message; when  *)
(* no task succeeds or there is no "tasks" key the output is empty and     *)
(* reported as "No results returned", not as an exception.                 *)
(***************************************************************************)
C6_RecordsOfSuccessfulTasks ==
    Answered =>
        /\ vol.outcome \in {"results", "No results returned"}
        /\ Len(vol.results) = EntriesUpTo(Len(RespTasks))
        /\ \A i \in 1..Len(RespTasks) : Succeeded(i) =>
              \A e \in 1..Len(EntriesOf(i)) :
                 LET rec == vol.results[EntriesUpTo(i - 1) + e]
                     entry == EntriesOf(i)[e]
                 IN  /\ rec.Keyword = entry.keyword
                     /\ rec.SearchVolume = entry.search_volume
                     /\ rec.Location = vol.location.name
                     /\ rec.CPC = "N/A" <=> ("cpc" \notin DOMAIN entry \/ entry.cpc = 0)
        /\ Len(vol.warnings) = FailedUpTo(Len(RespTasks))
        /\ \A i \in 1..Len(RespTasks) : ~Succeeded(i) =>
              LET w == vol.warnings[FailedUpTo(i)]
              IN  /\ "status_code" \in DOMAIN RespTasks[i]
                        => w.status_code = RespTasks[i].status_code
                  /\ "status_code" \notin DOMAIN RespTasks[i] => w.status_code = NoCode
                  /\ "status_message" \in DOMAIN RespTasks[i]
                        => w.status_message = RespTasks[i].status_message
        /\ (\A i \in 1..Len(RespTasks) : ~Succeeded(i)) =>
              /\ vol.results = <<>>
              /\ vol.outcome = "No results returned"
        /\ vol.outcome = "results" <=> vol.results # <<>>

\* A failed task followed by a successful one: one warning with the failed
\* task's code, and the successful task's entry as the only record.
C6_Witness ==
    /\ Answered
    /\ Len(RespTasks) = 2
    /\ ~Succeeded(1) /\ "status_code" \in DOMAIN RespTasks[1]
    /\ Succeeded(2) /\ Len(EntriesOf(2)) = 1
    /\ Len(vol.results) = 1
    /\ vol.results[1].Keyword = EntriesOf(2)[1].keyword
    /\ Len(vol.warnings) = 1
    /\ vol.warnings[1].status_code = RespTasks[1].status_code

NonWhitespace(c) == c \notin {" ", "\t", "\n", "\r"}

RECURSIVE Concat(_)
Concat(seqs) == IF seqs = <<>> THEN <<>> ELSE Head(seqs) \o Concat(Tail(seqs))

\* Position i holds the first non-whitespace character of its line.
StartsKeyword(text, i) ==
    /\ NonWhitespace(text[i])
    /\ \A j \in 1..(i - 1) :
          (\A m \in j..(i - 1) : text[m] # "\n") => ~NonWhitespace(text[j])

\* k is a stretch of the text between whitespace (or the text's ends).
TrimmedPieceOf(text, k) ==
    \E a \in 1..Len(text) :
        LET b == a + Len(k) - 1
        IN  /\ b <= Len(text)
            /\ SubSeq(text, a, b) = k
            /\ a = 1 \/ ~NonWhitespace(text[a - 1])
            /\ b = Len(text) \/ ~NonWhitespace(text[b + 1])

(***************************************************************************)
(* C7: the keyword list sent to the provider is the input lines, trimmed,  *)
(* blank ones discarded, in input order; no request is sent with an empty  *)
(* list or with a keyword that is empty after trimming.                    *)
(***************************************************************************)
C7_KeywordsTrimmedNonBlank ==
    LET text == vol.keywords_input
    IN  /\ Sent =>
              /\ vol.keywords # <<>>
              /\ \A n \in 1..Len(vol.keywords) :
                    LET k == vol.keywords[n]
                    IN  /\ k # <<>>
                        /\ NonWhitespace(k[1]) /\ NonWhitespace(k[Len(k)])
                        /\ \A i \in 1..Len(k) : k[i] # "\n"
                        /\ TrimmedPieceOf(text, k)
              /\ SelectSeq(Concat(vol.keywords), NonWhitespace)
                    = SelectSeq(text, NonWhitespace)
              /\ Len(vol.keywords)
                    = Cardinality({i \in 1..Len(text) : StartsKeyword(text, i)})
        /\ (vol.outcome # "none" /\ SelectSeq(text, NonWhitespace) = <<>>) =>
              /\ ~Sent
              /\ vol.outcome = "no keywords"

\* Two keywords around a blank line, one of them trimmed.
C7_Witness ==
    /\ Sent
    /\ Len(vol.keywords) = 2
    /\ Cardinality({i \in 1..Len(vol.keywords_input) : vol.keywords_input[i] = "\n"}) = 2
    /\ Len(Concat(vol.keywords)) + 2 < Len(vol.keywords_input)

====
